---- MODULE Spec2Model ----
(***************************************************************************)
(* Model of src/uri.rs: the HTTP request-target (RequestUri), the          *)
(* decomposed absolute path (PathQueryFragment) and its query_pairs()      *)
(* helper.                                                                 *)
(*                                                                         *)
(* A String is modelled as the sequence of its bytes (query.as_bytes()),   *)
(* a decoded String as the sequence of its code points, Option<T> as a     *)
(* sequence of length 0 (None) or 1 (Some), Vec<T> as a sequence and a     *)
(* (String, String) pair as a 2-tuple.                                     *)
(*                                                                         *)
(* query_pairs() hands the query's bytes to url::form_urlencoded::parse.   *)
(* That function belongs to the `url` crate (uri.rs lines 2-3), whose      *)
(* source is not part of this repository; it is modelled after the         *)
(* application/x-www-form-urlencoded parser that the doc comment of        *)
(* query_pairs names (uri.rs line 64), in the shape the crate had when     *)
(* parse returned Vec<(String, String)> (the return type at line 67).      *)
(***************************************************************************)
EXTENDS Integers, Sequences, FiniteSets, TLC

VARIABLES
    self,      \* the PathQueryFragment query_pairs() is called on
    twin,      \* a second PathQueryFragment with the same query
    dpc,       \* single caller: "idle", "done" or "panicked"
    dret,      \* single caller: the Option<Vec<(String, String)>> returned
    pc,        \* per caller: "idle", "called", "done" or "panicked"
    recv,      \* per caller: the receiver of its call, "self" or "twin"
    seen,      \* per caller: the Option<&String> that as_ref() produced
    ret,       \* per caller: the result of its latest finished call
    prev,      \* per caller: None, or Some(result of the call before)
    lhs,       \* a RequestUri
    rhs,       \* another RequestUri
    src,       \* <<variant, payload>> that lhs was constructed from
    eqret,     \* None, or Some(result of lhs == rhs)
    cloned,    \* None, or Some(lhs.clone())
    matched    \* None, or Some(<<variant, payload>>) from matching on lhs

vars == <<self, twin, dpc, dret, pc, recv, seen, ret, prev,
          lhs, rhs, src, eqret, cloned, matched>>

decodeVars == <<self, twin, dpc, dret>>
sharedVars == <<pc, recv, seen, ret, prev>>
uriVars == <<lhs, rhs, src, eqret, cloned, matched>>

(***************************************************************************)
(* Bounds of the model.                                                    *)
(***************************************************************************)
\* longest query string of the single-caller specification
MaxLen == 4
\* longest query string of the shared-instance specification
MaxSharedLen == 1
\* number of concurrent callers of the shared-instance specification
NumCallers == 2

(***************************************************************************)
(* Bytes.                                                                  *)
(***************************************************************************)
Amp == 38
Equals == 61
Percent == 37
Plus == 43
Space == 32
Replacement == 65533

\* The bytes query strings are drawn from: k & = % + 2 6 F.  `k` is not a
\* hex digit; 2, 6 and F give the escapes %22 %26 %2F %62 %66 %6F (ASCII)
\* and %F2 %F6 %FF (not UTF-8).
Alphabet == {107, Amp, Equals, Percent, Plus, 50, 54, 70}

Strings(n) == UNION {[1..m -> Alphabet] : m \in 0..n}

(***************************************************************************)
(* Option<T>.                                                              *)
(***************************************************************************)
None == <<>>
Some(x) == <<x>>

(***************************************************************************)
(* url::form_urlencoded::parse and what it calls.                          *)
(***************************************************************************)
\* slice.split(|&b| b == sep): the pieces between separators, empty ones kept
RECURSIVE split(_, _)
split(input, sep) ==
    IF \A i \in 1..Len(input) : input[i] # sep
    THEN <<input>>
    ELSE LET p == CHOOSE i \in 1..Len(input) :
                      input[i] = sep /\ \A j \in 1..(i - 1) : input[j] # sep
         IN  <<SubSeq(input, 1, p - 1)>>
                 \o split(SubSeq(input, p + 1, Len(input)), sep)

\* faulty variant: the position of the last element equal to b
position_elem_last(piece, b) ==
    IF \A i \in 1..Len(piece) : piece[i] # b
    THEN None
    ELSE Some((CHOOSE i \in 1..Len(piece) :
                  piece[i] = b /\ \A j \in (i + 1)..Len(piece) : piece[j] # b) - 1)

\* piece.position_elem(&b): the 0-based position of the first element equal to b
position_elem(piece, b) ==
    IF \A i \in 1..Len(piece) : piece[i] # b
    THEN None
    ELSE Some((CHOOSE i \in 1..Len(piece) :
                  piece[i] = b /\ \A j \in 1..(i - 1) : piece[j] # b) - 1)

\* replace_plus: every `+` becomes a space
replace_plus(input) ==
    [i \in 1..Len(input) |-> IF input[i] = Plus THEN Space ELSE input[i]]

\* the (name, value) byte strings of one non-empty piece
name_value(piece) ==
    LET position == position_elem(piece, Equals)
        name  == IF position # None THEN SubSeq(piece, 1, position[1]) ELSE piece
        value == IF position # None
                 THEN SubSeq(piece, position[1] + 2, Len(piece))
                 ELSE <<>>
    IN  <<replace_plus(name), replace_plus(value)>>

\* faulty variant: a pair whose name was already pushed is dropped
RECURSIVE push_pairs_dedup(_)
push_pairs_dedup(pieces) ==
    IF pieces = <<>>
    THEN <<>>
    ELSE LET rest == push_pairs_dedup(SubSeq(pieces, 1, Len(pieces) - 1))
             piece == pieces[Len(pieces)]
         IN  IF piece = <<>>
                \/ \E i \in 1..Len(rest) : rest[i][1] = name_value(piece)[1]
             THEN rest
             ELSE Append(rest, name_value(piece))

\* the loop over the pieces: one pair pushed for every non-empty piece
RECURSIVE push_pairs(_)
push_pairs(pieces) ==
    IF pieces = <<>>
    THEN <<>>
    ELSE (IF Head(pieces) # <<>> THEN <<name_value(Head(pieces))>> ELSE <<>>)
             \o push_pairs(Tail(pieces))

\* faulty variant: only the decimal digits are hex digits
from_hex_decimal(byte) ==
    IF byte \in 48..57 THEN Some(byte - 48) ELSE None

\* from_hex: the value of a hex digit, None for any other byte
from_hex(byte) ==
    IF byte \in 48..57 THEN Some(byte - 48)
    ELSE IF byte \in 65..70 THEN Some(byte + 10 - 65)
    ELSE IF byte \in 97..102 THEN Some(byte + 10 - 97)
    ELSE None

\* faulty variant: decoding stops at the first malformed escape
RECURSIVE percent_decode_strict(_, _)
percent_decode_strict(input, i) ==
    IF i >= Len(input)
    THEN <<>>
    ELSE IF input[i + 1] = Percent
         THEN IF i + 2 < Len(input)
                 /\ from_hex(input[i + 2]) # None
                 /\ from_hex(input[i + 3]) # None
              THEN <<from_hex(input[i + 2])[1] * 16 + from_hex(input[i + 3])[1]>>
                       \o percent_decode_strict(input, i + 3)
              ELSE <<>>
         ELSE <<input[i + 1]>> \o percent_decode_strict(input, i + 1)

\* percent_decode_to, from the 0-based position i on: %XX with two hex
\* digits becomes the byte XX, every other byte is copied
RECURSIVE percent_decode_to(_, _)
percent_decode_to(input, i) ==
    IF i >= Len(input)
    THEN <<>>
    ELSE IF input[i + 1] = Percent
            /\ i + 2 < Len(input)
            /\ from_hex(input[i + 2]) # None
            /\ from_hex(input[i + 3]) # None
         THEN <<from_hex(input[i + 2])[1] * 16 + from_hex(input[i + 3])[1]>>
                  \o percent_decode_to(input, i + 3)
         ELSE <<input[i + 1]>> \o percent_decode_to(input, i + 1)

percent_decode(input) == percent_decode_to(input, 0)

\* String::from_utf8_lossy: the code points of the bytes read as UTF-8.  A
\* byte below 0x80 is its own code point.  A byte from 0x80 on starts or
\* continues a multi-byte sequence; a well-formed one needs continuation
\* bytes 0x80..0xBF, which no escape over the modelled hex digits produces,
\* so every such byte is an ill-formed sequence of its own and becomes
\* U+FFFD.
from_utf8_lossy(bytes) ==
    [i \in 1..Len(bytes) |-> IF bytes[i] < 128 THEN bytes[i] ELSE Replacement]

is_ascii(input) == \A i \in 1..Len(input) : input[i] < 128

\* parse_internal: None when the input cannot be decoded under the
\* encoding override, else Some(pairs)
parse_internal(input, is_utf8) ==
    LET pairs == push_pairs(split(input, Amp))
    IN  IF ~(is_utf8 \/ is_ascii(input))
        THEN None
        ELSE Some([i \in 1..Len(pairs) |->
                      <<from_utf8_lossy(percent_decode(pairs[i][1])),
                        from_utf8_lossy(percent_decode(pairs[i][2]))>>])

\* parse(input) is parse_internal(input, None, false).unwrap(): no encoding
\* override, which is UTF-8
parse_panics(input) == parse_internal(input, TRUE) = None

parse(input) == parse_internal(input, TRUE)[1]

(***************************************************************************)
(* PathQueryFragment.                                                      *)
(***************************************************************************)
PathQueryFragment(p, q, f) == [path |-> p, query |-> q, fragment |-> f]

\* faulty variant: the fragment is read in place of the query
self_query_fragment(s) == s.fragment

\* self.query.as_ref()
self_query(s) == s.query

\* faulty variant: a query without pairs is reported like an absent query
query_pairs_empty_is_none(s) ==
    IF self_query(s) = None \/ parse(self_query(s)[1]) = <<>>
    THEN None
    ELSE Some(parse(self_query(s)[1]))

\* fn query_pairs(&self) -> Option<Vec<(String, String)>>
query_pairs(s) ==
    IF self_query(s) = None THEN None ELSE Some(parse(self_query(s)[1]))

query_pairs_panics(s) ==
    self_query(s) # None /\ parse_panics(self_query(s)[1])

(***************************************************************************)
(* Derived PartialEq and Clone (the #[derive] lines of both types).        *)
(***************************************************************************)
\* String == String: the same bytes
String_eq(a, b) ==
    Len(a) = Len(b) /\ \A i \in 1..Len(a) : a[i] = b[i]

\* Vec<String> == Vec<String>: the same length and equal elements in order
Vec_eq(a, b) ==
    Len(a) = Len(b) /\ \A i \in 1..Len(a) : String_eq(a[i], b[i])

\* Option<String> == Option<String>
Option_eq(a, b) ==
    IF a = None \/ b = None
    THEN a = None /\ b = None
    ELSE String_eq(a[1], b[1])

\* faulty variant: the fragment is not compared
PathQueryFragment_eq_no_fragment(a, b) ==
    /\ Vec_eq(a.path, b.path)
    /\ Option_eq(a.query, b.query)

\* PathQueryFragment == PathQueryFragment: field by field
PathQueryFragment_eq(a, b) ==
    /\ Vec_eq(a.path, b.path)
    /\ Option_eq(a.query, b.query)
    /\ Option_eq(a.fragment, b.fragment)

\* faulty variant: the fragment is not copied
PathQueryFragment_clone_no_fragment(a) ==
    [path     |-> [i \in 1..Len(a.path) |-> a.path[i]],
     query    |-> a.query,
     fragment |-> None]

\* PathQueryFragment::clone: every field cloned
PathQueryFragment_clone(a) ==
    [path     |-> [i \in 1..Len(a.path) |-> a.path[i]],
     query    |-> IF a.query = None THEN None ELSE Some(a.query[1]),
     fragment |-> IF a.fragment = None THEN None ELSE Some(a.fragment[1])]

\* Url, the url crate's parsed URI: two of its fields, compared field by
\* field
Url(scheme, scheme_data) == [scheme |-> scheme, scheme_data |-> scheme_data]

Url_eq(a, b) ==
    String_eq(a.scheme, b.scheme) /\ String_eq(a.scheme_data, b.scheme_data)

(***************************************************************************)
(* RequestUri.                                                             *)
(***************************************************************************)
Variants == {"AbsolutePath", "AbsoluteUri", "Authority", "Star"}

AbsolutePath(p) == [tag |-> "AbsolutePath", payload |-> p]
AbsoluteUri(u) == [tag |-> "AbsoluteUri", payload |-> u]
Authority(a) == [tag |-> "Authority", payload |-> a]
Star == [tag |-> "Star", payload |-> <<>>]

\* the value the variant's constructor builds from a payload
Construct(v, p) ==
    CASE v = "AbsolutePath" -> AbsolutePath(p)
      [] v = "AbsoluteUri"  -> AbsoluteUri(p)
      [] v = "Authority"    -> Authority(p)
      [] v = "Star"         -> Star

\* faulty variant: a pair of values of different variants falls into an arm
\* that answers true
RequestUri_eq_default_true(a, b) ==
    IF a.tag # b.tag
    THEN TRUE
    ELSE CASE a.tag = "AbsolutePath" -> PathQueryFragment_eq(a.payload, b.payload)
           [] a.tag = "AbsoluteUri"  -> Url_eq(a.payload, b.payload)
           [] a.tag = "Authority"    -> String_eq(a.payload, b.payload)
           [] a.tag = "Star"         -> TRUE

\* RequestUri == RequestUri: the same variant and equal payloads
RequestUri_eq(a, b) ==
    IF a.tag # b.tag
    THEN FALSE
    ELSE CASE a.tag = "AbsolutePath" -> PathQueryFragment_eq(a.payload, b.payload)
           [] a.tag = "AbsoluteUri"  -> Url_eq(a.payload, b.payload)
           [] a.tag = "Authority"    -> String_eq(a.payload, b.payload)
           [] a.tag = "Star"         -> TRUE

\* RequestUri::clone: the same variant around a clone of the payload
RequestUri_clone(a) ==
    CASE a.tag = "AbsolutePath" -> AbsolutePath(PathQueryFragment_clone(a.payload))
      [] a.tag = "AbsoluteUri"  -> AbsoluteUri(Url(a.payload.scheme, a.payload.scheme_data))
      [] a.tag = "Authority"    -> Authority([i \in 1..Len(a.payload) |-> a.payload[i]])
      [] a.tag = "Star"         -> Star

\* match on a RequestUri: the arm taken and the payload it binds
match_uri(a) ==
    CASE a.tag = "AbsolutePath" -> <<"AbsolutePath", a.payload>>
      [] a.tag = "AbsoluteUri"  -> <<"AbsoluteUri", a.payload>>
      [] a.tag = "Authority"    -> <<"Authority", a.payload>>
      [] a.tag = "Star"         -> <<"Star", <<>>>>

(***************************************************************************)
(* The values the specifications draw from.                                *)
(***************************************************************************)
Paths == {<<>>, <<<<107>>>>}
Fragments == {None, Some(<<107>>)}
Queries(n) == {None} \cup {Some(q) : q \in Strings(n)}

UriPaths == {<<>>, <<<<107>>>>, <<<<107>>, <<50>>>>, <<<<50>>, <<107>>>>}
UriQueries == {None, Some(<<>>), Some(<<107>>)}
UriPathQueryFragments ==
    {PathQueryFragment(p, q, f) : p \in UriPaths, q \in UriQueries, f \in Fragments}
Urls == {Url(<<107>>, <<50>>), Url(<<107>>, <<54>>)}
Authorities == {<<107>>, <<107, 50>>}

Payloads(v) ==
    CASE v = "AbsolutePath" -> UriPathQueryFragments
      [] v = "AbsoluteUri"  -> Urls
      [] v = "Authority"    -> Authorities
      [] v = "Star"         -> {<<>>}

Callers == 1..NumCallers

\* the variables a specification does not use stay at these values
IdleDecode ==
    /\ dpc = "idle"
    /\ dret = None

IdleShared ==
    /\ pc = [c \in Callers |-> "idle"]
    /\ recv = [c \in Callers |-> "self"]
    /\ seen = [c \in Callers |-> None]
    /\ ret = [c \in Callers |-> None]
    /\ prev = [c \in Callers |-> None]

IdleUri ==
    /\ lhs = Star
    /\ rhs = Star
    /\ src = <<"Star", <<>>>>
    /\ eqret = None
    /\ cloned = None
    /\ matched = None

(***************************************************************************)
(* Spec: one caller calls query_pairs() on a PathQueryFragment.            *)
(***************************************************************************)
Init ==
    /\ \E p \in Paths, q \in Queries(MaxLen), f \in Fragments :
           self = PathQueryFragment(p, q, f)
    /\ twin = self
    /\ IdleDecode
    /\ IdleShared
    /\ IdleUri

\* the whole of query_pairs(): parse's unwrap() panics on None
QueryPairs ==
    /\ dpc = "idle"
    /\ IF query_pairs_panics(self)
       THEN dpc' = "panicked" /\ dret' = dret
       ELSE dpc' = "done" /\ dret' = query_pairs(self)
    /\ UNCHANGED <<self, twin>>
    /\ UNCHANGED sharedVars
    /\ UNCHANGED uriVars

Next == QueryPairs

Spec == Init /\ [][Next]_vars

(***************************************************************************)
(* SpecShared: several callers call query_pairs() on two instances with    *)
(* the same query, in any interleaving and any number of times.  A call    *)
(* takes two steps: the borrow self.query.as_ref(), then map(parse).       *)
(***************************************************************************)
InitShared ==
    /\ \E p \in Paths, q \in Queries(MaxSharedLen), f \in Fragments :
           self = PathQueryFragment(p, q, f)
    /\ \E p \in Paths, f \in Fragments :
           /\ <<p, f>> # <<self.path, self.fragment>>
           /\ twin = PathQueryFragment(p, self.query, f)
    /\ IdleDecode
    /\ IdleShared
    /\ IdleUri

Receiver(r) == IF r = "self" THEN self ELSE twin

\* faulty variant: the query is moved out of the receiver (Option::take)
CallTake(c, r) ==
    /\ pc[c] = "idle"
    /\ recv' = [recv EXCEPT ![c] = r]
    /\ seen' = [seen EXCEPT ![c] = self_query(Receiver(r))]
    /\ pc' = [pc EXCEPT ![c] = "called"]
    /\ IF r = "self"
       THEN self' = [self EXCEPT !.query = None] /\ twin' = twin
       ELSE twin' = [twin EXCEPT !.query = None] /\ self' = self
    /\ UNCHANGED <<dpc, dret, ret, prev>>
    /\ UNCHANGED uriVars

\* caller c enters query_pairs(&self) on receiver r and borrows the query
Call(c, r) ==
    /\ pc[c] = "idle"
    /\ recv' = [recv EXCEPT ![c] = r]
    /\ seen' = [seen EXCEPT ![c] = self_query(Receiver(r))]
    /\ pc' = [pc EXCEPT ![c] = "called"]
    /\ UNCHANGED <<self, twin, dpc, dret, ret, prev>>
    /\ UNCHANGED uriVars

\* caller c maps parse over the borrowed query and returns
Return(c) ==
    /\ pc[c] = "called"
    /\ IF seen[c] # None /\ parse_panics(seen[c][1])
       THEN pc' = [pc EXCEPT ![c] = "panicked"] /\ ret' = ret
       ELSE /\ pc' = [pc EXCEPT ![c] = "done"]
            /\ ret' = [ret EXCEPT ![c] =
                          IF seen[c] = None THEN None ELSE Some(parse(seen[c][1]))]
    /\ UNCHANGED <<self, twin, dpc, dret, recv, seen, prev>>
    /\ UNCHANGED uriVars

\* caller c keeps its result and gets ready to call again
Again(c) ==
    /\ pc[c] = "done"
    /\ prev' = [prev EXCEPT ![c] = Some(ret[c])]
    /\ pc' = [pc EXCEPT ![c] = "idle"]
    /\ UNCHANGED <<self, twin, dpc, dret, recv, seen, ret>>
    /\ UNCHANGED uriVars

NextShared ==
    \/ \E c \in Callers, r \in {"self", "twin"} : Call(c, r)
    \/ \E c \in Callers : Return(c)
    \/ \E c \in Callers : Again(c)

SpecShared == InitShared /\ [][NextShared]_vars

(***************************************************************************)
(* SpecUri: two request-targets are constructed, then compared, cloned     *)
(* and matched on.                                                         *)
(***************************************************************************)
InitUri ==
    /\ \E v \in Variants : \E p \in Payloads(v) :
           /\ src = <<v, p>>
           /\ lhs = Construct(v, p)
    /\ \E v \in Variants : \E p \in Payloads(v) : rhs = Construct(v, p)
    /\ eqret = None
    /\ cloned = None
    /\ matched = None
    /\ self = PathQueryFragment(<<>>, None, None)
    /\ twin = self
    /\ IdleDecode
    /\ IdleShared

Compare ==
    /\ eqret = None
    /\ eqret' = Some(RequestUri_eq(lhs, rhs))
    /\ UNCHANGED <<lhs, rhs, src, cloned, matched>>
    /\ UNCHANGED decodeVars
    /\ UNCHANGED sharedVars

Clone ==
    /\ cloned = None
    /\ cloned' = Some(RequestUri_clone(lhs))
    /\ UNCHANGED <<lhs, rhs, src, eqret, matched>>
    /\ UNCHANGED decodeVars
    /\ UNCHANGED sharedVars

Match ==
    /\ matched = None
    /\ matched' = Some(match_uri(lhs))
    /\ UNCHANGED <<lhs, rhs, src, eqret, cloned>>
    /\ UNCHANGED decodeVars
    /\ UNCHANGED sharedVars

NextUri == Compare \/ Clone \/ Match

SpecUri == InitUri /\ [][NextUri]_vars

(***************************************************************************)
(* What the properties below are stated in: the query string cut at its    *)
(* `&` bytes, a segment cut at its first `=`, and the decoding of a field, *)
(* each described by positions instead of computed by a scan.              *)
(***************************************************************************)
\* position 0, the positions of the `&` bytes, and the position after the end
Cuts(q) == {0, Len(q) + 1} \cup {i \in 1..Len(q) : q[i] = Amp}

NextCut(q, b) ==
    CHOOSE x \in Cuts(q) : x > b /\ \A y \in Cuts(q) : y > b => x <= y

\* the segment that starts after cut b
Segment(q, b) == SubSeq(q, b + 1, NextCut(q, b) - 1)

SegmentStarts(q) == Cuts(q) \ {Len(q) + 1}

NonEmptySegments(q) == {b \in SegmentStarts(q) : Segment(q, b) # <<>>}

\* the 1-based rank of b in the set S of numbers
Rank(S, b) == Cardinality({x \in S : x <= b})

EqualsPositions(seg) == {i \in 1..Len(seg) : seg[i] = Equals}

FirstEquals(seg) ==
    CHOOSE i \in EqualsPositions(seg) : \A j \in EqualsPositions(seg) : i <= j

\* the undecoded key and value of a segment
RawName(seg) ==
    IF EqualsPositions(seg) = {} THEN seg ELSE SubSeq(seg, 1, FirstEquals(seg) - 1)

RawValue(seg) ==
    IF EqualsPositions(seg) = {}
    THEN <<>>
    ELSE SubSeq(seg, FirstEquals(seg) + 1, Len(seg))

IsHex(b) == b \in (48..57) \cup (65..70) \cup (97..102)

HexValue(b) ==
    CASE b \in 48..57  -> b - 48
      [] b \in 65..70  -> b - 55
      [] b \in 97..102 -> b - 87

\* the positions of the well-formed escapes %XX.  Two escapes never overlap:
\* the two bytes after the `%` are hex digits, and `%` is none.
EscapeStarts(x) ==
    {i \in 1..Len(x) :
        x[i] = Percent /\ i + 2 <= Len(x) /\ IsHex(x[i + 1]) /\ IsHex(x[i + 2])}

EscapeValue(x, i) == 16 * HexValue(x[i + 1]) + HexValue(x[i + 2])

\* the `%` bytes that start no well-formed escape
MalformedPercents(x) ==
    {i \in 1..Len(x) : x[i] = Percent /\ i \notin EscapeStarts(x)}

\* the positions that give an output byte: all but the two hex digits of an
\* escape
Kept(x) ==
    {i \in 1..Len(x) : (i - 1) \notin EscapeStarts(x) /\ (i - 2) \notin EscapeStarts(x)}

ByteAt(x, i) ==
    IF i \in EscapeStarts(x) THEN EscapeValue(x, i)
    ELSE IF x[i] = Plus THEN Space
    ELSE x[i]

\* the decoded bytes of a field: an escape gives its byte, `+` gives a space
DecodedBytes(x) ==
    [j \in 1..Cardinality(Kept(x)) |->
        ByteAt(x, CHOOSE i \in Kept(x) : Rank(Kept(x), i) = j)]

\* the decoded bytes read as UTF-8, a byte that is not UTF-8 giving U+FFFD
CodePoints(bytes) ==
    [j \in 1..Len(bytes) |-> IF bytes[j] < 128 THEN bytes[j] ELSE Replacement]

\* the decoding the model applies to a field
DecodedField(x) == from_utf8_lossy(percent_decode(replace_plus(x)))

\* how often byte b occurs in the keys and values of the pairs r
CountIn(r, b) ==
    Cardinality(UNION {{<<i, n, j>> : j \in {k \in 1..Len(r[i][n]) : r[i][n][k] = b}} :
                          i \in 1..Len(r), n \in {1, 2}})

Returned == dpc = "done" /\ self.query # None

(***************************************************************************)
(* C1.  query_pairs() returns None if and only if the query is None: a     *)
(* present query, the empty string included, gives Some of a (possibly     *)
(* empty) sequence.                                                        *)
(***************************************************************************)
C1_AbsentIffNoQuery ==
    dpc = "done" => ((dret = None) <=> (self.query = None))

C1_Witness ==
    dpc = "done" /\ self.query = Some(<<>>) /\ dret = Some(<<>>)

C6_SameQuerySameResult ==
    /\ \A c, d \in Callers :
           (/\ pc[c] = "done"
            /\ pc[d] = "done"
            /\ Receiver(recv[c]).query = Receiver(recv[d]).query)
               => ret[c] = ret[d]
    /\ \A c \in Callers :
           (pc[c] = "done" /\ prev[c] # None) => ret[c] = prev[c][1]

C6_PureFunctionOfQuery ==
    /\ []C6_SameQuerySameResult
    /\ [][self' = self /\ twin' = twin]_vars

\* caller 1 has called twice, the second time on self, caller 2 on twin, and
\* the two instances differ in their fragment
C6_Witness ==
    /\ pc[1] = "done" /\ recv[1] = "self" /\ prev[1] # None
    /\ pc[2] = "done" /\ recv[2] = "twin"
    /\ self.query = Some(<<107>>)
    /\ self.fragment # twin.fragment
    /\ ret[1] = Some(<< <<<<107>>, <<>>>> >>)

(***************************************************************************)
(* C7.  Two AbsolutePath request-targets are equal if and only if their    *)
(* paths are the same sequence, their queries are equal (None is not       *)
(* Some("")) and their fragments are equal.                                *)
(***************************************************************************)
C7_AbsolutePathEqualityIsStructural ==
    (eqret # None /\ lhs.tag = "AbsolutePath" /\ rhs.tag = "AbsolutePath") =>
        (eqret[1] <=> (/\ lhs.payload.path = rhs.payload.path
                       /\ lhs.payload.query = rhs.payload.query
                       /\ lhs.payload.fragment = rhs.payload.fragment))

\* the two differ only in the query: None against Some("")
C7_Witness ==
    /\ eqret = Some(FALSE)
    /\ lhs.tag = "AbsolutePath" /\ rhs.tag = "AbsolutePath"
    /\ lhs.payload.path = rhs.payload.path
    /\ lhs.payload.fragment = rhs.payload.fragment
    /\ lhs.payload.query = None
    /\ rhs.payload.query = Some(<<>>)

(***************************************************************************)
(* C8.  Two request-targets of different variants are never equal,         *)
(* whatever their payloads, and Star equals Star.                          *)
(***************************************************************************)
C8_VariantsAreExclusive ==
    eqret # None =>
        /\ lhs.tag # rhs.tag => eqret[1] = FALSE
        /\ (lhs.tag = "Star" /\ rhs.tag = "Star") => eqret[1] = TRUE

\* Star compared with an AbsolutePath
C8_Witness ==
    eqret = Some(FALSE) /\ lhs.tag = "Star" /\ rhs.tag = "AbsolutePath"

(***************************************************************************)
(* C9.  Matching on a constructed request-target gives the variant and the *)
(* payload it was constructed from; a clone has the variant and the        *)
(* payload of the original and is equal to it; a value is equal to itself. *)
(***************************************************************************)
C9_ConstructMatchCloneRoundTrip ==
    /\ matched # None => (matched[1][1] = src[1] /\ matched[1][2] = src[2])
    /\ cloned # None =>
           /\ cloned[1].tag = lhs.tag
           /\ cloned[1].payload = lhs.payload
           /\ RequestUri_eq(cloned[1], lhs)
    /\ RequestUri_eq(lhs, lhs)

\* an AbsolutePath with a fragment has been matched on and cloned
C9_Witness ==
    /\ matched # None
    /\ cloned # None
    /\ lhs.tag = "AbsolutePath"
    /\ lhs.payload.fragment # None
    /\ lhs.payload.path # <<>>

(***************************************************************************)
(* C10.  Whatever the interleaving of the callers, every finished call has *)
(* the result of a call made alone on its receiver, no call panics, and no *)
(* step changes an instance.                                               *)
(***************************************************************************)
C10_CallsAsIfAlone ==
    \A c \in Callers :
        /\ pc[c] # "panicked"
        /\ pc[c] = "done" => ret[c] = query_pairs(Receiver(recv[c]))

C10_ConcurrentCallsAgree ==
    /\ []C10_CallsAsIfAlone
    /\ [][self' = self /\ twin' = twin]_vars

\* caller 1 has returned while caller 2 is inside its call on the same instance
C10_Witness ==
    /\ pc[1] = "done" /\ recv[1] = "self"
    /\ pc[2] = "called" /\ recv[2] = "self"
    /\ self.query = Some(<<Equals>>)
    /\ ret[1] = Some(<< <<<<>>, <<>>>> >>)
====
